---- MODULE Spec2Model ----
(***************************************************************************)
(* A model of tpDcc.libs.plugin.core.factory.PluginFactory (Python 3).     *)
(*                                                                         *)
(* Strings of the program (package names, identifiers, versions, file      *)
(* names, path segments) are sequences of one-character strings, so that   *)
(* the string operations of the code (regular expressions, startswith,     *)
(* replace/split, sorted, LooseVersion) are computed on their characters.  *)
(* A filesystem path is the sequence of its segments: "/p1/a.py" is        *)
(* <<P1, A_PY>> and "/p1/" is <<P1, <<>>>>.                                *)
(***************************************************************************)
EXTENDS Integers, Sequences, FiniteSets, TLC

VARIABLES
    _version_identifier,  \* self._version_identifier (None or attribute name)
    _plugin_identifier,   \* self._plugin_identifier (attribute name)
    _plugins,             \* self._plugins
    _registered_paths,    \* self._registered_paths
    stamp,                \* the ROOT / PATH attributes the last operation set on class objects
    ret                   \* the last public operation and its outcome

vars == <<_version_identifier, _plugin_identifier, _plugins, _registered_paths, stamp, ret>>

(***************************************************************************)
(* Bounds of the model.                                                    *)
(***************************************************************************)
\* largest number of plugin entries held over all packages
MaxPlugins == 2
\* largest number of registered (package, path) pairs
MaxPaths == 2

(***************************************************************************)
(* Values.                                                                 *)
(***************************************************************************)
\* Python's None (no one-character string, so it equals no program string)
None == <<"<None>">>

Falsy(x) == x = None \/ x = <<>>

\* the default package 'tpDcc'
tpDcc == <<"t", "p", "D", "c", "c">>

\* another package name, 'pkg'
PKG == <<"p", "k", "g">>

\* PluginLoadingMechanism
GUESS == 0
LOAD_SOURCE == 1
IMPORTABLE == 2

Mechanisms == {GUESS, LOAD_SOURCE, IMPORTABLE}

Letter ==
    {"a", "b", "c", "d", "e", "f", "g", "h", "i", "j", "k", "l", "m",
     "n", "o", "p", "q", "r", "s", "t", "u", "v", "w", "x", "y", "z",
     "A", "B", "C", "D", "E", "F", "G", "H", "I", "J", "K", "L", "M",
     "N", "O", "P", "Q", "R", "S", "T", "U", "V", "W", "X", "Y", "Z"}

Digit == {"0", "1", "2", "3", "4", "5", "6", "7", "8", "9"}

\* code point of a character, as far as the order of the code points matters
Ord(c) ==
    CASE c = "-" -> 45
      [] c = "." -> 46
      [] c = "0" -> 48 [] c = "1" -> 49 [] c = "2" -> 50 [] c = "3" -> 51
      [] c = "4" -> 52 [] c = "5" -> 53 [] c = "6" -> 54 [] c = "7" -> 55
      [] c = "8" -> 56 [] c = "9" -> 57
      [] c = "_" -> 95
      [] c = "a" -> 97 [] c = "b" -> 98 [] c = "c" -> 99 [] c = "t" -> 116
      [] c = "z" -> 122
      [] OTHER -> 200

DigitVal(c) == Ord(c) - 48

(***************************************************************************)
(* String operations.                                                      *)
(***************************************************************************)
StartsWith(s, p) == Len(s) >= Len(p) /\ SubSeq(s, 1, Len(p)) = p

EndsWith(s, p) == Len(s) >= Len(p) /\ SubSeq(s, Len(s) - Len(p) + 1, Len(s)) = p

Contains(s, p) == \E i \in 1..(Len(s) - Len(p) + 1) : SubSeq(s, i, i + Len(p) - 1) = p

\* str.replace(old, new) for single characters
Replace(s, old, new) == [i \in 1..Len(s) |-> IF s[i] = old THEN new ELSE s[i]]

\* str.split(sep)[0]
SplitFirst(s, sep) ==
    IF \E i \in 1..Len(s) : s[i] = sep
    THEN LET i == CHOOSE j \in 1..Len(s) : s[j] = sep /\ \A k \in 1..(j - 1) : s[k] # sep
         IN SubSeq(s, 1, i - 1)
    ELSE s

\* Python's order of two strings (code point by code point, a prefix first)
RECURSIVE StrLess(_, _)
StrLess(a, b) ==
    IF b = <<>> THEN FALSE
    ELSE IF a = <<>> THEN TRUE
    ELSE IF a[1] # b[1] THEN Ord(a[1]) < Ord(b[1])
    ELSE StrLess(Tail(a), Tail(b))

PY == <<".", "p", "y">>
PYC == <<".", "p", "y", "c">>
PYCACHE == <<"_", "_", "p", "y", "c", "a", "c", "h", "e", "_", "_">>
TEST == <<"t", "e", "s", "t">>
SETUP_PY == <<"s", "e", "t", "u", "p", ".", "p", "y">>

\* REGEX_FILE_VALIDATOR.match(file_name): ([a-zA-Z].*)(\.py$|\.pyc$)
REGEX_FILE_VALIDATOR(file_name) ==
    /\ Len(file_name) >= 1
    /\ file_name[1] \in Letter
    /\ \/ Len(file_name) >= 4 /\ EndsWith(file_name, PY)
       \/ Len(file_name) >= 5 /\ EndsWith(file_name, PYC)

\* REGEX_FOLDER_VALIDATOR.match(root): ^((?!__pycache__).)*$
REGEX_FOLDER_VALIDATOR(root) == \A i \in 1..Len(root) : ~Contains(root[i], PYCACHE)

(***************************************************************************)
(* Paths (tpDcc.libs.python.path, os.path).                                *)
(***************************************************************************)
\* path_utils.clean_path: the canonical form, without empty segments
clean_path(path) == SelectSeq(path, LAMBDA seg : seg # <<>>)

\* os.path.join(root, name)
Join(root, name) ==
    IF root # <<>> /\ root[Len(root)] = <<>>
    THEN SubSeq(root, 1, Len(root) - 1) \o <<name>>
    ELSE root \o <<name>>

\* os.path.splitext(path)[0]: the path without the extension of its last segment
Splitext0(path) ==
    IF path = <<>> THEN path
    ELSE LET seg == path[Len(path)]
             dots == {i \in 2..Len(seg) : seg[i] = "." /\ \E j \in 1..(i - 1) : seg[j] # "."}
         IN IF dots = {} THEN path
            ELSE LET d == CHOOSE i \in dots : \A j \in dots : j <= i
                 IN SubSeq(path, 1, Len(path) - 1) \o <<SubSeq(seg, 1, d - 1)>>

(***************************************************************************)
(* The filesystem and the modules the factory is run against.  They are    *)
(* inputs of the program: a fixed tree of two plugin directories.          *)
(*   /p1             e.py  a.py  test_a.py  r.txt  __pycache__/z.pyc       *)
(*   /p2             k.py  b.py  setup.py  _u.py                           *)
(***************************************************************************)
P1 == <<"p", "1">>
P2 == <<"p", "2">>
NOPE == <<"n", "o">>
A_PY == <<"a", ".", "p", "y">>
TEST_A_PY == <<"t", "e", "s", "t", "_", "a", ".", "p", "y">>
Z_PYC == <<"z", ".", "p", "y", "c">>
B_PY == <<"b", ".", "p", "y">>
U_PY == <<"_", "u", ".", "p", "y">>
K_PY == <<"k", ".", "p", "y">>
R_TXT == <<"r", ".", "t", "x", "t">>
E_PY == <<"e", ".", "p", "y">>

\* the directories of the tree, in canonical form
Dirs == {<<P1>>, <<P1, PYCACHE>>, <<P2>>}

\* the spellings of directory paths the model registers: "/p1", "/p1/", "/p2"
DirArgs == {<<P1>>, <<P1, <<>>>>, <<P2>>}

\* os.listdir of a directory: its files and its sub-directories
DirFiles(d) ==
    CASE d = <<P1>> -> <<E_PY, A_PY, TEST_A_PY, R_TXT>>
      [] d = <<P1, PYCACHE>> -> <<Z_PYC>>
      [] d = <<P2>> -> <<K_PY, B_PY, SETUP_PY, U_PY>>
      [] OTHER -> <<>>

DirSubs(d) ==
    CASE d = <<P1>> -> <<PYCACHE>>
      [] OTHER -> <<>>

Files == UNION {{Join(d, DirFiles(d)[i]) : i \in 1..Len(DirFiles(d))} : d \in Dirs}

isdir(path) == clean_path(path) \in Dirs

isfile(path) ==
    /\ path # <<>>
    /\ path[Len(path)] # <<>>
    /\ \E d \in Dirs : \E i \in 1..Len(DirFiles(d)) : clean_path(path) = Join(d, DirFiles(d)[i])

\* The class objects.  Interface is the factory's interface; "obj" is a value
\* that is no class.
Interface == "Iface"

ClassKeys == {"Iface", "A1", "A2", "C", "H", "T", "Z", "S", "U", "PK"}

isclass(x) == x \in ClassKeys

\* issubclass(x, self._interface)
issubclass(x) == x \in ClassKeys \ {"H"}

\* cls.__name__
ClassName(x) ==
    CASE x = "Iface" -> <<"I">>
      [] x \in {"A1", "A2"} -> <<"A">>
      [] x = "PK" -> <<"P", "K">>
      [] OTHER -> <<x>>

\* the class attribute that a factory built with plugin_id='ID' reads: a plain
\* value, or a function returning the value
ClassID(x) ==
    CASE x = "A1" -> [func |-> FALSE, val |-> <<"a">>]
      [] x = "A2" -> [func |-> TRUE, val |-> <<"a">>]
      [] x = "C" -> [func |-> TRUE, val |-> <<"c">>]
      [] x = "PK" -> [func |-> FALSE, val |-> <<"p", "k", "g", ".", "x">>]
      [] OTHER -> [func |-> FALSE, val |-> <<"i">>]

V_1_2 == <<"1", ".", "2">>
V_1_10 == <<"1", ".", "1", "0">>
V_2_0 == <<"2", ".", "0">>
V_1_0 == <<"1", ".", "0">>

\* the class attribute that a factory built with version_id='VERSION' reads
ClassVERSION(x) ==
    CASE x = "A1" -> [func |-> FALSE, val |-> V_1_2]
      [] x = "A2" -> [func |-> TRUE, val |-> V_1_10]
      [] x = "PK" -> [func |-> FALSE, val |-> V_2_0]
      [] OTHER -> [func |-> FALSE, val |-> V_1_0]

\* dir(module) of the module of a file: class objects, "os" (an attribute that
\* is no class) and "boom" (an attribute whose getattr raises)
ModuleAttrs(file_path) ==
    CASE file_path = <<P1, A_PY>> -> <<"A1", "Iface", "os">>
      [] file_path = <<P1, E_PY>> -> <<"Iface", "boom">>
      [] file_path = <<P1, TEST_A_PY>> -> <<"Iface", "T">>
      [] file_path = <<P1, PYCACHE, Z_PYC>> -> <<"Z">>
      [] file_path = <<P2, B_PY>> -> <<"A2", "H", "Iface", "boom", "C">>
      [] file_path = <<P2, SETUP_PY>> -> <<"S">>
      [] file_path = <<P2, U_PY>> -> <<"U">>
      [] OTHER -> <<>>

\* modules.convert_to_dotted_path / sys.modules / modules.import_module:
\* whether the file's module can be imported by name
Importable(file_path) == file_path \in {<<P1, A_PY>>, <<P1, TEST_A_PY>>}

\* modules.load_module_from_source: whether the file's source can be executed
Loadable(file_path) == file_path \in Files \ {<<P2, K_PY>>, <<P1, R_TXT>>}

(***************************************************************************)
(* Python's dict, in insertion order: a sequence of <<key, value>>.        *)
(***************************************************************************)
DHas(d, k) == \E i \in 1..Len(d) : d[i][1] = k

DIdx(d, k) == CHOOSE i \in 1..Len(d) : d[i][1] = k

DGet(d, k) == d[DIdx(d, k)][2]

\* d[k] = v
DPut(d, k, v) == IF DHas(d, k) THEN [d EXCEPT ![DIdx(d, k)] = <<k, v>>] ELSE Append(d, <<k, v>>)

\* d.get(k, default)
DGetDefault(d, k, default) == IF DHas(d, k) THEN DGet(d, k) ELSE default

\* list(): a list object with the given items
PyList(items) == [islist |-> TRUE, items |-> items]

\* the built-in type `list` itself
ListType == [islist |-> FALSE, items |-> <<>>]

\* dict(): self._plugins as constructed
EmptyPlugins == [isdict |-> TRUE, d |-> <<>>]

\* list(): self._plugins as unregister_path leaves it
PluginsAsList == [isdict |-> FALSE, d |-> <<>>]

\* len(self._plugins): the number of keys of the dict, or of items of the list
PyLen(plugins) == Len(plugins.d)

(***************************************************************************)
(* The factory.  A factory state is the record                             *)
(*   [plugins, paths, stamp] of self._plugins, self._registered_paths and  *)
(* the attributes stamped on the class objects.  Class objects are         *)
(* identified by the place of their definition.                            *)
(***************************************************************************)
\* folder_utils.walk_level(path): os.walk, top-down
RECURSIVE WalkSubs(_, _)
RECURSIVE walk_level(_)
walk_level(root) ==
    <<[root |-> root, files |-> DirFiles(clean_path(root))]>>
        \o WalkSubs(root, DirSubs(clean_path(root)))

WalkSubs(root, subs) ==
    IF subs = <<>> THEN <<>>
    ELSE walk_level(Join(root, Head(subs))) \o WalkSubs(root, Tail(subs))

\* the file filter of register_path for the files of one walked directory
RECURSIVE EligibleFiles(_, _)
EligibleFiles(root, files) ==
    IF files = <<>> THEN <<>>
    ELSE LET file_name == Head(files)
             rest == EligibleFiles(root, Tail(files))
         IN IF ~REGEX_FILE_VALIDATOR(file_name) THEN rest
            ELSE IF StartsWith(file_name, TEST) \/ file_name \in {SETUP_PY} THEN rest
            ELSE <<clean_path(Join(root, file_name))>> \o rest

\* file_paths of register_path: the files to inspect under a walked tree
RECURSIVE FilePaths(_)
FilePaths(walked) ==
    IF walked = <<>> THEN <<>>
    ELSE LET w == Head(walked)
         IN (IF ~REGEX_FOLDER_VALIDATOR(w.root) THEN <<>> ELSE EligibleFiles(w.root, w.files))
                \o FilePaths(Tail(walked))

\* _mechanism_import(file_path): TRUE when it yields a module
_mechanism_import(file_path) == Importable(file_path)

\* _mechanism_load(file_path): TRUE when it yields a module
_mechanism_load(file_path) == Loadable(file_path)

\* LoadAttempts where the load from source is attempted whenever the import
\* yielded no module, whatever the mechanism
LoadAttemptsAlwaysFallBack(file_path, mechanism) ==
    LET first == IF mechanism \in {IMPORTABLE, GUESS} THEN <<"import">> ELSE <<>>
        imported == first # <<>> /\ _mechanism_import(file_path)
    IN IF ~imported THEN first \o <<"load">> ELSE first

\* the loading steps of register_path for one file: the calls it makes, in
\* order ("import" for _mechanism_import, "load" for _mechanism_load)
LoadAttempts(file_path, mechanism) ==
    LET first == IF mechanism \in {IMPORTABLE, GUESS} THEN <<"import">> ELSE <<>>
        imported == first # <<>> /\ _mechanism_import(file_path)
    IN IF ~imported /\ mechanism \in {LOAD_SOURCE, GUESS} THEN first \o <<"load">> ELSE first

\* whether a loading step yields a module
Yields(attempt, file_path) ==
    IF attempt = "import" THEN _mechanism_import(file_path) ELSE _mechanism_load(file_path)

\* the loading steps of register_path for one file: TRUE when module_to_inspect
\* is a module
LoadModule(file_path, mechanism) ==
    LET attempts == LoadAttempts(file_path, mechanism)
    IN \E i \in 1..Len(attempts) : Yields(attempts[i], file_path)

\* the try block of register_path for one module: the loop over dir(module)
\* from its i-th attribute on; an exception leaves the loop
RECURSIVE ScanModule(_, _, _, _, _, _)
ScanModule(st, attrs, i, path, file_path, package_name) ==
    IF i > Len(attrs) THEN st
    ELSE LET item == attrs[i]
             next == ScanModule(st, attrs, i + 1, path, file_path, package_name)
         IN IF item = "boom" THEN st
            ELSE IF ~isclass(item) THEN next
            ELSE IF item = Interface THEN next
            ELSE IF ~issubclass(item) THEN next
            ELSE LET st1 == [st EXCEPT !.stamp =
                                DPut(st.stamp, item, [ROOT |-> path, PATH |-> file_path])]
                 IN IF ~st1.plugins.isdict THEN st1
                    ELSE LET d1 == IF DHas(st1.plugins.d, package_name) THEN st1.plugins.d
                                   ELSE DPut(st1.plugins.d, package_name, PyList(<<>>))
                             cur == DGet(d1, package_name)
                         IN IF ~cur.islist THEN [st1 EXCEPT !.plugins.d = d1]
                            ELSE ScanModule(
                                     [st1 EXCEPT !.plugins.d =
                                         DPut(d1, package_name, PyList(Append(cur.items, item)))],
                                     attrs, i + 1, path, file_path, package_name)

\* ScanFiles where a file that yields no module, or whose scan raises, ends the
\* loop over file_paths
RECURSIVE ScanFilesStopAtBroken(_, _, _, _, _)
ScanFilesStopAtBroken(st, file_paths, path, package_name, mechanism) ==
    IF file_paths = <<>> THEN st
    ELSE LET file_path == Head(file_paths)
             attrs == ModuleAttrs(file_path)
         IN IF ~LoadModule(file_path, mechanism) THEN st
            ELSE LET st1 == ScanModule(st, attrs, 1, path, file_path, package_name)
                 IN IF \E i \in 1..Len(attrs) : attrs[i] = "boom" THEN st1
                    ELSE ScanFilesStopAtBroken(st1, Tail(file_paths), path, package_name,
                                               mechanism)

\* the loop of register_path over file_paths
RECURSIVE ScanFiles(_, _, _, _, _)
ScanFiles(st, file_paths, path, package_name, mechanism) ==
    IF file_paths = <<>> THEN st
    ELSE LET file_path == Head(file_paths)
             st1 == IF ~LoadModule(file_path, mechanism) THEN st
                    ELSE ScanModule(st, ModuleAttrs(file_path), 1, path, file_path, package_name)
         IN ScanFiles(st1, Tail(file_paths), path, package_name, mechanism)

\* FilePaths(walk_level(path)) of every directory path the model registers
ScanPlan == [path \in DirArgs |-> FilePaths(walk_level(path))]

\* register_path(path, package_name, mechanism): the state it leaves and the
\* value it returns
register_path(st, path, package_name_arg, mechanism) ==
    IF Falsy(path) \/ ~isdir(path) THEN [st |-> st, value |-> 0]
    ELSE LET package_name == IF Falsy(package_name_arg) THEN tpDcc ELSE package_name_arg
             st1 == [st EXCEPT !.paths =
                        DPut(st.paths, package_name,
                             DPut(DGetDefault(st.paths, package_name, <<>>), path, mechanism))]
             current_plugins_count == PyLen(st1.plugins)
             file_paths == ScanPlan[path]
             st2 == ScanFiles(st1, file_paths, path, package_name, mechanism)
         IN [st |-> st2, value |-> PyLen(st2.plugins) - current_plugins_count]

\* RegisterPathsLoop without the test of `visited`: every path is registered
RECURSIVE RegisterPathsLoopNoVisited(_, _, _, _, _, _)
RegisterPathsLoopNoVisited(st, paths, visited, total_plugins, package_name, mechanism) ==
    IF paths = <<>> THEN [st |-> st, value |-> total_plugins]
    ELSE LET path == Head(paths)
         IN IF Falsy(path)
            THEN RegisterPathsLoopNoVisited(st, Tail(paths), visited, total_plugins,
                                            package_name, mechanism)
            ELSE LET r == register_path(st, path, package_name, mechanism)
                 IN RegisterPathsLoopNoVisited(r.st, Tail(paths), visited,
                                               total_plugins + r.value, package_name, mechanism)

\* python.force_list(paths) and the loop of register_paths from its i-th path on
RECURSIVE RegisterPathsLoop(_, _, _, _, _, _)
RegisterPathsLoop(st, paths, visited, total_plugins, package_name, mechanism) ==
    IF paths = <<>> THEN [st |-> st, value |-> total_plugins]
    ELSE LET path == Head(paths)
             base_name == clean_path(IF isfile(path) THEN Splitext0(path) ELSE path)
         IN IF Falsy(path) \/ base_name \in visited
            THEN RegisterPathsLoop(st, Tail(paths), visited, total_plugins, package_name, mechanism)
            ELSE LET r == register_path(st, path, package_name, mechanism)
                 IN RegisterPathsLoop(r.st, Tail(paths), visited \cup {base_name},
                                      total_plugins + r.value, package_name, mechanism)

\* register_paths(paths, package_name, mechanism)
register_paths(st, paths, package_name, mechanism) ==
    RegisterPathsLoop(st, paths, {}, 0, package_name, mechanism)

\* os.pathsep, as a segment of an environment value
SEP == <<":">>

\* value.split(os.pathsep): the paths of an environment value
RECURSIVE SplitPathsep(_, _)
SplitPathsep(value, cur) ==
    IF value = <<>> THEN <<cur>>
    ELSE IF Head(value) = SEP THEN <<cur>> \o SplitPathsep(Tail(value), <<>>)
    ELSE SplitPathsep(Tail(value), Append(cur, Head(value)))

\* register_paths_from_env_var(env_var, package_name, mechanism), given the
\* value of os.environ.get(env_var, '')
register_paths_from_env_var(st, env_value, package_name, mechanism) ==
    register_paths(st, SplitPathsep(env_value, <<>>), package_name, mechanism)

\* a function object whose call returns val
FunctionObj(val) == <<"<function>">> \o val

\* inspect.isfunction
isfunction(x) == x # <<>> /\ x[1] = "<function>"

NAME_ATTR == <<"_", "_", "n", "a", "m", "e", "_", "_">>
ID_ATTR == <<"I", "D">>
VERSION_ATTR == <<"V", "E", "R", "S", "I", "O", "N">>

\* getattr(plugin, attr) for the attributes the factory reads
getattr(plugin, attr) ==
    IF attr = NAME_ATTR THEN ClassName(plugin)
    ELSE LET a == IF attr = ID_ATTR THEN ClassID(plugin) ELSE ClassVERSION(plugin)
         IN IF a.func THEN FunctionObj(a.val) ELSE a.val

\* _get_identifier(plugin)
_get_identifier(plugin) ==
    LET identifier == getattr(plugin, _plugin_identifier)
    IN IF isfunction(identifier) THEN Tail(identifier) ELSE identifier

\* _get_version(plugin); the version attributes are strings, which str() keeps
_get_version(plugin) ==
    LET identifier == getattr(plugin, _version_identifier)
    IN IF isfunction(identifier) THEN Tail(identifier) ELSE identifier

\* register_plugin_from_class(plugin_class, package_name): the state it leaves,
\* the value it returns and the exception it raises ("" when none)
register_plugin_from_class(st, plugin_class, package_name_arg) ==
    IF ~isclass(plugin_class) \/ ~issubclass(plugin_class)
    THEN [st |-> st, value |-> FALSE, raised |-> ""]
    ELSE LET class_id == _get_identifier(plugin_class)
             split_id == SplitFirst(Replace(class_id, ".", "-"), "-")
             package_name == IF ~Falsy(package_name_arg) THEN package_name_arg
                             ELSE IF split_id # class_id THEN split_id ELSE tpDcc
         IN IF ~st.plugins.isdict
            THEN [st |-> st, value |-> FALSE, raised |-> "AttributeError"]
            ELSE LET d1 == IF DHas(st.plugins.d, package_name) THEN st.plugins.d
                           ELSE DPut(st.plugins.d, package_name, ListType)
                     cur == DGet(d1, package_name)
                 IN IF ~cur.islist
                    THEN [st |-> [st EXCEPT !.plugins.d = d1], value |-> FALSE,
                          raised |-> "TypeError"]
                    ELSE [st |-> [st EXCEPT !.plugins.d =
                                     DPut(d1, package_name,
                                          PyList(Append(cur.items, plugin_class)))],
                          value |-> TRUE, raised |-> ""]

\* clear()
clear(st) == [st EXCEPT !.plugins.d = <<>>, !.paths = <<>>]

\* ReRegister that registers every path again with the default mechanism GUESS
\* instead of the mechanism stored for it
RECURSIVE ReRegisterDefaultMechanism(_, _, _, _, _, _, _)
ReRegisterDefaultMechanism(st, registered_paths, i, j, skipping, skip_package, skip_path) ==
    IF i > Len(registered_paths) THEN st
    ELSE LET pkg_name == registered_paths[i][1]
             registered_paths_dict == registered_paths[i][2]
         IN IF j > Len(registered_paths_dict)
            THEN ReRegisterDefaultMechanism(st, registered_paths, i + 1, 1, skipping,
                                            skip_package, skip_path)
            ELSE LET original_path == registered_paths_dict[j][1]
                 IN IF /\ skipping
                       /\ skip_package = pkg_name
                       /\ clean_path(original_path) = clean_path(skip_path)
                    THEN ReRegisterDefaultMechanism(st, registered_paths, i, j + 1, skipping,
                                                    skip_package, skip_path)
                    ELSE ReRegisterDefaultMechanism(
                             register_path(st, original_path, pkg_name, GUESS).st,
                             registered_paths, i, j + 1, skipping, skip_package, skip_path)

\* ReRegister that compares the paths as they are spelled, not their canonical
\* forms
RECURSIVE ReRegisterRawPath(_, _, _, _, _, _, _)
ReRegisterRawPath(st, registered_paths, i, j, skipping, skip_package, skip_path) ==
    IF i > Len(registered_paths) THEN st
    ELSE LET pkg_name == registered_paths[i][1]
             registered_paths_dict == registered_paths[i][2]
         IN IF j > Len(registered_paths_dict)
            THEN ReRegisterRawPath(st, registered_paths, i + 1, 1, skipping,
                                   skip_package, skip_path)
            ELSE LET original_path == registered_paths_dict[j][1]
                     mechanism == registered_paths_dict[j][2]
                 IN IF skipping /\ skip_package = pkg_name /\ original_path = skip_path
                    THEN ReRegisterRawPath(st, registered_paths, i, j + 1, skipping,
                                           skip_package, skip_path)
                    ELSE ReRegisterRawPath(
                             register_path(st, original_path, pkg_name, mechanism).st,
                             registered_paths, i, j + 1, skipping, skip_package, skip_path)

\* the loops of unregister_path and reload over the copied registry, from the
\* i-th package and its j-th path on; skip_package / skip_path name the entry
\* unregister_path leaves out (reload leaves none out)
RECURSIVE ReRegister(_, _, _, _, _, _, _)
ReRegister(st, registered_paths, i, j, skipping, skip_package, skip_path) ==
    IF i > Len(registered_paths) THEN st
    ELSE LET pkg_name == registered_paths[i][1]
             registered_paths_dict == registered_paths[i][2]
         IN IF j > Len(registered_paths_dict)
            THEN ReRegister(st, registered_paths, i + 1, 1, skipping, skip_package, skip_path)
            ELSE LET original_path == registered_paths_dict[j][1]
                     mechanism == registered_paths_dict[j][2]
                 IN IF /\ skipping
                       /\ skip_package = pkg_name
                       /\ clean_path(original_path) = clean_path(skip_path)
                    THEN ReRegister(st, registered_paths, i, j + 1, skipping,
                                    skip_package, skip_path)
                    ELSE ReRegister(register_path(st, original_path, pkg_name, mechanism).st,
                                    registered_paths, i, j + 1, skipping,
                                    skip_package, skip_path)

\* unregister_path(path, package_name)
unregister_path(st, path, package_name) ==
    LET registered_paths == st.paths
        st1 == [st EXCEPT !.plugins = PluginsAsList, !.paths = <<>>]
    IN ReRegister(st1, registered_paths, 1, 1, TRUE, package_name, path)

\* reload that reads the registry after clear() has emptied it, instead of
\* the copy taken before
reloadWithoutCopy(st) ==
    ReRegister(clear(st), clear(st).paths, 1, 1, FALSE, None, <<>>)

\* reload()
reload(st) ==
    LET registered_paths == st.paths
    IN ReRegister(clear(st), registered_paths, 1, 1, FALSE, None, <<>>)

(***************************************************************************)
(* distutils.version.LooseVersion.                                         *)
(***************************************************************************)
LowerLetter ==
    {"a", "b", "c", "d", "e", "f", "g", "h", "i", "j", "k", "l", "m",
     "n", "o", "p", "q", "r", "s", "t", "u", "v", "w", "x", "y", "z"}

\* the alternative of component_re (\d+ | [a-z]+ | \.) a character belongs to;
\* "o" for a character that matches none
CharKind(c) ==
    IF c \in Digit THEN "d" ELSE IF c \in LowerLetter THEN "a" ELSE IF c = "." THEN "." ELSE "o"

\* int(chars)
RECURSIVE IntOf(_, _)
IntOf(chars, acc) ==
    IF chars = <<>> THEN acc ELSE IntOf(Tail(chars), 10 * acc + DigitVal(Head(chars)))

\* a component of a parsed version: an int or a string
Component(kind, chars) ==
    IF kind = "d" THEN [num |-> TRUE, n |-> IntOf(chars, 0), s |-> <<>>]
    ELSE [num |-> FALSE, n |-> 0, s |-> chars]

\* LooseVersion.parse: the components of vstring, without the empty strings
\* and the dots
RECURSIVE ParseLoose(_, _, _)
ParseLoose(vstring, kind, cur) ==
    LET flush == IF cur = <<>> THEN <<>> ELSE <<Component(kind, cur)>>
    IN IF vstring = <<>> THEN flush
       ELSE LET c == Head(vstring)
                k == CharKind(c)
            IN IF k = "." THEN flush \o ParseLoose(Tail(vstring), "", <<>>)
               ELSE IF k = kind \/ cur = <<>> THEN ParseLoose(Tail(vstring), k, Append(cur, c))
               ELSE flush \o ParseLoose(Tail(vstring), k, <<c>>)

\* LooseVersion(vstring).version
LooseVersion(vstring) == ParseLoose(vstring, "", <<>>)

\* LooseVersion._cmp on two parsed versions: the order of two Python lists,
\* "TypeError" where an int meets a string
RECURSIVE LooseCmp(_, _)
LooseCmp(a, b) ==
    IF a = <<>> /\ b = <<>> THEN "eq"
    ELSE IF a = <<>> THEN "lt"
    ELSE IF b = <<>> THEN "gt"
    ELSE IF a[1] = b[1] THEN LooseCmp(Tail(a), Tail(b))
    ELSE IF a[1].num # b[1].num THEN "TypeError"
    ELSE IF a[1].num THEN (IF a[1].n < b[1].n THEN "lt" ELSE "gt")
    ELSE (IF StrLess(a[1].s, b[1].s) THEN "lt" ELSE "gt")

(***************************************************************************)
(* The queries.  Each returns [raised, value]: the exception it raises ("" *)
(* when none) and the value it returns.                                    *)
(***************************************************************************)
\* sorted(strs): ascending in Python's order of strings
RECURSIVE InsertSorted(_, _)
InsertSorted(sorted_list, x) ==
    IF sorted_list = <<>> THEN <<x>>
    ELSE IF StrLess(x, Head(sorted_list)) THEN <<x>> \o sorted_list
    ELSE <<Head(sorted_list)>> \o InsertSorted(Tail(sorted_list), x)

RECURSIVE sorted(_)
sorted(strs) ==
    IF strs = <<>> THEN <<>>
    ELSE InsertSorted(sorted(SubSeq(strs, 1, Len(strs) - 1)), strs[Len(strs)])

\* Matching in the reverse of the list order: the plugin discovered last comes
\* first
MatchingLastFirst(items, identifier) ==
    LET m == SelectSeq(items, LAMBDA plugin : _get_identifier(plugin) = identifier)
    IN [i \in 1..Len(m) |-> m[Len(m) + 1 - i]]

\* the plugins of a list whose identifier is the given one, in list order
Matching(items, identifier) == SelectSeq(items, LAMBDA plugin : _get_identifier(plugin) = identifier)

\* paths(package_name)
paths(registered_paths, package_name) ==
    LET d == DGetDefault(registered_paths, package_name, <<>>)
    IN [i \in 1..Len(d) |-> d[i][1]]

\* identifiers(package_name)
identifiers(plugins, package_name_arg) ==
    LET package_name == IF Falsy(package_name_arg) THEN tpDcc ELSE package_name_arg
    IN IF ~plugins.isdict THEN [raised |-> "AttributeError", value |-> {}]
       ELSE LET cur == DGetDefault(plugins.d, package_name, PyList(<<>>))
            IN IF ~cur.islist THEN [raised |-> "TypeError", value |-> {}]
               ELSE [raised |-> "",
                     value |-> {_get_identifier(cur.items[i]) : i \in 1..Len(cur.items)}]

\* versions without the test of self._version_identifier
versionsUnguarded(plugins, identifier, package_name) ==
    IF ~plugins.isdict THEN [raised |-> "AttributeError", value |-> <<>>]
    ELSE LET cur == DGetDefault(plugins.d, package_name, PyList(<<>>))
         IN IF ~cur.islist THEN [raised |-> "TypeError", value |-> <<>>]
            ELSE LET m == Matching(cur.items, identifier)
                 IN [raised |-> "", value |-> sorted([i \in 1..Len(m) |-> _get_version(m[i])])]

\* versions(identifier, package_name)
versions(plugins, identifier, package_name) ==
    IF Falsy(_version_identifier) THEN [raised |-> "", value |-> <<>>]
    ELSE IF ~plugins.isdict THEN [raised |-> "AttributeError", value |-> <<>>]
    ELSE LET cur == DGetDefault(plugins.d, package_name, PyList(<<>>))
         IN IF ~cur.islist THEN [raised |-> "TypeError", value |-> <<>>]
            ELSE LET m == Matching(cur.items, identifier)
                 IN [raised |-> "", value |-> sorted([i \in 1..Len(m) |-> _get_version(m[i])])]

\* the loop of get_plugin_from_id over self._plugins.values(): the matching
\* plugins of all packages, from the i-th package on
RECURSIVE MatchingAll(_, _, _)
MatchingAll(d, i, plugin_id) ==
    IF i > Len(d) THEN [raised |-> "", value |-> <<>>]
    ELSE IF ~d[i][2].islist THEN [raised |-> "TypeError", value |-> <<>>]
    ELSE LET rest == MatchingAll(d, i + 1, plugin_id)
         IN [raised |-> rest.raised,
             value |-> Matching(d[i][2].items, plugin_id) \o rest.value]

\* the dict {version: plugin} of get_plugin_from_id over the matching plugins
RECURSIVE VersionsDict(_, _)
VersionsDict(d, matching_plugins) ==
    IF matching_plugins = <<>> THEN d
    ELSE VersionsDict(DPut(d, _get_version(Head(matching_plugins)), Head(matching_plugins)),
                      Tail(matching_plugins))

\* plugin_version not in ordered_versions, from the i-th version on: "in",
\* "not in", or "TypeError" when a comparison raises
RECURSIVE VersionIn(_, _, _)
VersionIn(plugin_version, ordered_versions, i) ==
    IF i > Len(ordered_versions) THEN "not in"
    ELSE LET c == LooseCmp(ordered_versions[i], plugin_version)
         IN IF c = "eq" THEN "in"
            ELSE IF c = "TypeError" THEN "TypeError"
            ELSE VersionIn(plugin_version, ordered_versions, i + 1)

\* get_plugin_from_id(plugin_id, package_name, plugin_version); the value is a
\* class object, or "None"
get_plugin_from_id(plugins, plugin_id, package_name, plugin_version) ==
    IF ~Falsy(package_name) /\ ~(plugins.isdict /\ DHas(plugins.d, package_name))
    THEN [raised |-> "", value |-> "None"]
    ELSE IF Falsy(package_name) /\ ~plugins.isdict
    THEN [raised |-> "AttributeError", value |-> "None"]
    ELSE LET found ==
                 IF ~Falsy(package_name)
                 THEN LET cur == DGet(plugins.d, package_name)
                      IN IF ~cur.islist THEN [raised |-> "TypeError", value |-> <<>>]
                         ELSE [raised |-> "", value |-> Matching(cur.items, plugin_id)]
                 ELSE MatchingAll(plugins.d, 1, plugin_id)
             matching_plugins == found.value
         IN IF found.raised # "" THEN [raised |-> found.raised, value |-> "None"]
            ELSE IF matching_plugins = <<>> THEN [raised |-> "", value |-> "None"]
            ELSE IF Falsy(_version_identifier) THEN [raised |-> "", value |-> matching_plugins[1]]
            ELSE LET vdict == VersionsDict(<<>>, matching_plugins)
                     ordered_versions == [i \in 1..Len(vdict) |-> LooseVersion(vdict[i][1])]
                 IN IF Falsy(plugin_version)
                    THEN [raised |-> "", value |-> DGet(vdict, vdict[1][1])]
                    ELSE LET isin == VersionIn(LooseVersion(plugin_version), ordered_versions, 1)
                         IN IF isin = "TypeError" THEN [raised |-> "TypeError", value |-> "None"]
                            ELSE IF isin = "not in" THEN [raised |-> "", value |-> "None"]
                            ELSE IF ~DHas(vdict, plugin_version)
                            THEN [raised |-> "KeyError", value |-> "None"]
                            ELSE [raised |-> "", value |-> DGet(vdict, plugin_version)]

(***************************************************************************)
(* The state machine: one action per public operation that changes the     *)
(* factory.                                                                *)
(***************************************************************************)
\* no class object has had ROOT and PATH set
NoStamps == <<>>

\* the factory state an operation starts from
State == [plugins |-> _plugins, paths |-> _registered_paths, stamp |-> NoStamps]

RECURSIVE SumLens(_, _)
SumLens(d, i) == IF i > Len(d) THEN 0 ELSE Len(d[i][2]) + SumLens(d, i + 1)

\* the number of plugin entries held over all packages
TotalEntries(plugins) == SumLens([i \in 1..Len(plugins.d) |-> <<plugins.d[i][1], plugins.d[i][2].items>>], 1)

\* the number of registered (package, path) pairs
TotalPaths(registered_paths) == SumLens(registered_paths, 1)

WithinBounds(st) == TotalEntries(st.plugins) <= MaxPlugins /\ TotalPaths(st.paths) <= MaxPaths

\* the arguments the operations are called with (<<>> is the path '')
PackageArgs == {None, tpDcc, PKG}

RegisterPathArgs ==
    (DirArgs \X {None, PKG} \X Mechanisms)
        \cup {<<<<P1>>, tpDcc, GUESS>>, <<<<NOPE>>, None, GUESS>>, <<<<>>, PKG, LOAD_SOURCE>>}

PathListArgs ==
    {<<>>, <<<<P1>>, <<P1>>>>, <<<<P1>>, <<P1, <<>>>>>>, <<<<P2>>, <<>>, <<P1>>, <<P2>>>>,
     <<<<P1, A_PY>>, <<P1, <<"a">>>>, <<P2>>>>}

EnvArgs == {<<>>, <<P1, SEP, P1, <<>>>>, <<P2, SEP, SEP, NOPE>>}

ClassArgs == {"PK", "H", "Iface", "obj"}

UnregisterPathArgs == (DirArgs \cup {<<NOPE>>}) \X PackageArgs

Become(st, r) ==
    /\ WithinBounds(st)
    /\ _plugins' = st.plugins
    /\ _registered_paths' = st.paths
    /\ stamp' = st.stamp
    /\ ret' = r
    /\ UNCHANGED <<_version_identifier, _plugin_identifier>>

Ret(op, value, ok, raised) == [op |-> op, value |-> value, ok |-> ok, raised |-> raised]

\* __init__(interface, paths=None, package_name=None, plugin_id, version_id):
\* the factory as constructed with the given plugin_id and version_id
Constructed(plugin_id, version_id) ==
    /\ _plugin_identifier = (IF Falsy(plugin_id) THEN NAME_ATTR ELSE plugin_id)
    /\ _version_identifier = version_id
    /\ _plugins = EmptyPlugins
    /\ _registered_paths = <<>>
    /\ stamp = NoStamps
    /\ ret = Ret("__init__", 0, FALSE, "")

\* a factory with versioning: PluginFactory(interface, plugin_id='ID', version_id='VERSION')
Init == Constructed(ID_ATTR, VERSION_ATTR)

\* a factory without versioning: PluginFactory(interface)
InitUnversioned == Constructed(None, None)

RegisterPath(path, package_name, mechanism) ==
    \E r \in {register_path(State, path, package_name, mechanism)} :
        Become(r.st, Ret("register_path", r.value, FALSE, ""))

RegisterPaths(path_list, package_name, mechanism) ==
    \E r \in {register_paths(State, path_list, package_name, mechanism)} :
        Become(r.st, Ret("register_paths", r.value, FALSE, ""))

RegisterPathsFromEnvVar(env_value, package_name, mechanism) ==
    \E r \in {register_paths_from_env_var(State, env_value, package_name, mechanism)} :
        Become(r.st, Ret("register_paths_from_env_var", r.value, FALSE, ""))

RegisterPluginFromClass(plugin_class, package_name) ==
    \E r \in {register_plugin_from_class(State, plugin_class, package_name)} :
        Become(r.st, Ret("register_plugin_from_class", 0, r.value, r.raised))

UnregisterPath(path, package_name) ==
    \E st \in {unregister_path(State, path, package_name)} :
        Become(st, Ret("unregister_path", 0, FALSE, ""))

Reload == \E st \in {reload(State)} : Become(st, Ret("reload", 0, FALSE, ""))

Clear == Become(clear(State), Ret("clear", 0, FALSE, ""))

Next ==
    \/ \E a \in RegisterPathArgs : RegisterPath(a[1], a[2], a[3])
    \/ \E path_list \in PathListArgs, package_name \in {None, PKG},
          mechanism \in {GUESS, IMPORTABLE} :
           RegisterPaths(path_list, package_name, mechanism)
    \/ \E env_value \in EnvArgs : RegisterPathsFromEnvVar(env_value, None, GUESS)
    \/ \E plugin_class \in ClassArgs, package_name \in PackageArgs :
           RegisterPluginFromClass(plugin_class, package_name)
    \/ \E a \in UnregisterPathArgs : UnregisterPath(a[1], a[2])
    \/ Reload
    \/ Clear

Spec == Init /\ [][Next]_vars

SpecUnversioned == InitUnversioned /\ [][Next]_vars

TypeOK ==
    /\ _plugins.isdict \in BOOLEAN
    /\ TotalEntries(_plugins) <= MaxPlugins
    /\ TotalPaths(_registered_paths) <= MaxPaths


(***************************************************************************)
(* Properties.                                                             *)
(***************************************************************************)
\* a factory that holds nothing
Fresh == [plugins |-> EmptyPlugins, paths |-> <<>>, stamp |-> NoStamps]

\* the identifiers of the plugins a factory that holds nothing finds under path
ScanIds(path, mechanism) ==
    identifiers(register_path(Fresh, path, tpDcc, mechanism).st.plugins, tpDcc).value

\* the plugin entries stored in the lists of the packages
Stored(plugins) ==
    UNION {{plugins.d[i][2].items[j] : j \in 1..Len(plugins.d[i][2].items)} :
               i \in 1..Len(plugins.d)}

\* the plugin entries of one package, or of every package when none is named
StoredIn(plugins, package_name) ==
    IF Falsy(package_name) THEN Stored(plugins)
    ELSE LET cur == DGetDefault(plugins.d, package_name, PyList(<<>>))
         IN {cur.items[j] : j \in 1..Len(cur.items)}

\* the identifiers and versions the queries are called with
IdArgs == {<<"a">>, <<"p", "k", "g", ".", "x">>, <<"i">>, <<"A">>, <<"P", "K">>, <<"n", "o">>}

\* v is not lower than w in the order of LooseVersion
LooseGeq(v, w) == LooseCmp(LooseVersion(v), LooseVersion(w)) \in {"gt", "eq"}

\* C1: register_path returns the number of plugin entries the call appended
\* to the registry.
C1_RegisterPathReturnsAppended ==
    [][ret'.op = "register_path"
           => ret'.value = TotalEntries(_plugins') - TotalEntries(_plugins)]_vars

\* the registry holds exactly the given paths, in this order, all of one package
RegistryIs(registered_paths, package_name, path_seq) ==
    /\ Len(registered_paths) = 1
    /\ registered_paths[1][1] = package_name
    /\ [i \in 1..Len(registered_paths[1][2]) |-> registered_paths[1][2][i][1]] = path_seq

\* C2: after register_path(p1), register_path(p2) and unregister_path(p2) on
\* one package, identifiers(package) is the set of the identifiers found under
\* p1; a following register_path(p2) makes the identifiers of p2 discoverable.
C2_UnregisterLeavesOtherPath ==
    [][\A package_name \in {tpDcc, PKG} :
           /\ (/\ ret.op = "register_path"
               /\ _plugins.isdict
               /\ RegistryIs(_registered_paths, package_name, <<<<P1>>, <<P2>>>>)
               /\ ret'.op = "unregister_path"
               /\ RegistryIs(_registered_paths', package_name, <<<<P1>>>>))
              => identifiers(_plugins', package_name) =
                     [raised |-> "",
                      value |-> ScanIds(<<P1>>, _registered_paths'[1][2][1][2])]
           /\ (/\ ret.op = "unregister_path"
               /\ RegistryIs(_registered_paths, package_name, <<<<P1>>>>)
               /\ ret'.op = "register_path"
               /\ RegistryIs(_registered_paths', package_name, <<<<P1>>, <<P2>>>>))
              => /\ identifiers(_plugins', package_name).raised = ""
                 /\ ScanIds(<<P2>>, _registered_paths'[1][2][2][2])
                        \subseteq identifiers(_plugins', package_name).value]_vars

\* C3: with versioning, get_plugin_from_id(id) without a version returns a
\* candidate whose version no candidate with that identifier exceeds in the
\* order of LooseVersion.
C3_HighestVersionReturned ==
    \A plugin_id \in IdArgs, package_name \in PackageArgs :
        LET r == get_plugin_from_id(_plugins, plugin_id, package_name, None)
        IN (r.raised = "" /\ r.value # "None")
               => \A c \in StoredIn(_plugins, package_name) :
                      _get_identifier(c) = plugin_id
                          => LooseGeq(_get_version(r.value), _get_version(c))

\* C4 as claimed: reload() leaves identifiers(package) of every package as it
\* was, in every state where every package holds a list of strict subclasses
\* of the interface.
C4_ReloadKeepsIdentifiers ==
    [][(/\ ret'.op = "reload"
        /\ _plugins.isdict
        /\ \A i \in 1..Len(_plugins.d) : _plugins.d[i][2].islist
        /\ \A c \in Stored(_plugins) : issubclass(c) /\ c # Interface)
           => \A package_name \in PackageArgs :
                  identifiers(_plugins', package_name) = identifiers(_plugins, package_name)]_vars

\* the identifiers found under the paths registered for a package, each path
\* scanned with the mechanism stored for it
RegisteredIds(registered_paths, package_name) ==
    LET d == DGetDefault(registered_paths, package_name, <<>>)
    IN UNION {ScanIds(d[i][1], d[i][2]) : i \in 1..Len(d)}

\* identifiers(package) returns, for every package, the identifiers found
\* under the registered paths of the package with their stored mechanisms
Scanned(plugins, registered_paths) ==
    \A package_name \in {tpDcc, PKG} :
        identifiers(plugins, package_name)
            = [raised |-> "", value |-> RegisteredIds(registered_paths, package_name)]

\* C4 as amended: in a state where identifiers(package) returns, for every
\* package, the identifiers found under its registered paths with their stored
\* mechanisms, reload() leaves identifiers(package) of every package as it was.
C4_ReloadKeepsScannedIdentifiers ==
    [][(ret'.op = "reload" /\ Scanned(_plugins, _registered_paths))
           => \A package_name \in PackageArgs :
                  identifiers(_plugins', package_name) = identifiers(_plugins, package_name)]_vars

\* a reload has rescanned two registered paths of which plugins were found
C4_Witness ==
    /\ ret.op = "reload"
    /\ Scanned(_plugins, _registered_paths)
    /\ TotalPaths(_registered_paths) = 2
    /\ TotalEntries(_plugins) = 2
    /\ identifiers(_plugins, tpDcc).value # {}

\* C5: get_plugin_from_id returns None and does not raise when no stored
\* plugin has the identifier or when the package is not registered.
C5_UnknownReturnsNone ==
    \A plugin_id \in IdArgs, package_name \in PackageArgs, plugin_version \in {None, V_1_2} :
        (\/ \A c \in Stored(_plugins) : _get_identifier(c) # plugin_id
         \/ ~Falsy(package_name) /\ ~(_plugins.isdict /\ DHas(_plugins.d, package_name)))
            => get_plugin_from_id(_plugins, plugin_id, package_name, plugin_version)
                   = [raised |-> "", value |-> "None"]

\* C6: every stored plugin entry is a class, a subclass of the interface and
\* not the interface itself.
C6_StoredAreStrictSubclasses ==
    \A c \in Stored(_plugins) : isclass(c) /\ issubclass(c) /\ c # Interface

\* C7: register_plugin_from_class of a strict subclass for a package that holds
\* no plugins yet returns True, does not raise, and leaves the package with a
\* list whose only member is the class.
C7_NewPackageGetsList ==
    [][\A plugin_class \in {"PK"}, package_name \in {tpDcc, PKG} :
           (/\ _plugins.isdict
            /\ ~DHas(_plugins.d, package_name)
            /\ RegisterPluginFromClass(plugin_class, package_name))
               => /\ ret'.ok
                  /\ ret'.raised = ""
                  /\ DGet(_plugins'.d, package_name) = PyList(<<plugin_class>>)
                  /\ identifiers(_plugins', package_name)
                         = [raised |-> "", value |-> {_get_identifier(plugin_class)}]]_vars

\* C8: without a version identifier, versions(identifier, package) returns an
\* empty list for every identifier and package.
C8_UnversionedVersionsEmpty ==
    \A identifier \in IdArgs, package_name \in PackageArgs :
        versions(_plugins, identifier, package_name) = [raised |-> "", value |-> <<>>]

\* a factory without a version identifier holds two plugins of one identifier
\* in the default package
C8_Witness ==
    /\ Falsy(_version_identifier)
    /\ _plugins.isdict
    /\ \E identifier \in IdArgs :
           Cardinality({c \in StoredIn(_plugins, tpDcc) : _get_identifier(c) = identifier}) = 2

\* the versions of a sequence ascend in the order of LooseVersion
RECURSIVE LooseAscending(_)
LooseAscending(vs) ==
    \/ Len(vs) < 2
    \/ LooseGeq(vs[2], vs[1]) /\ LooseAscending(Tail(vs))

\* C9: with versioning, versions(identifier, package) lists the versions of the
\* plugins of the package that have the identifier, ascending in the order of
\* LooseVersion.
C9_VersionsAscending ==
    \A identifier \in IdArgs, package_name \in {tpDcc, PKG} :
        LET r == versions(_plugins, identifier, package_name)
            m == IF _plugins.isdict /\ DGetDefault(_plugins.d, package_name, PyList(<<>>)).islist
                 THEN Matching(DGetDefault(_plugins.d, package_name, PyList(<<>>)).items,
                               identifier)
                 ELSE <<>>
        IN r.raised = ""
               => /\ Len(r.value) = Len(m)
                  /\ {r.value[i] : i \in 1..Len(r.value)} = {_get_version(m[i]) : i \in 1..Len(m)}
                  /\ LooseAscending(r.value)

\* a list of paths without the paths whose canonical form an earlier path of
\* the list has
RECURSIVE Deduplicated(_, _)
Deduplicated(path_list, seen) ==
    IF path_list = <<>> THEN <<>>
    ELSE IF clean_path(Head(path_list)) \in seen THEN Deduplicated(Tail(path_list), seen)
    ELSE <<Head(path_list)>>
             \o Deduplicated(Tail(path_list), seen \cup {clean_path(Head(path_list))})

\* C10: register_paths on a list that names a directory more than once returns
\* the count and leaves the state that register_paths on the list without the
\* duplicates does.
C10_DuplicatePathsScannedOnce ==
    \A path_list \in {l \in PathListArgs : Deduplicated(l, {}) # l},
       package_name \in {None, PKG}, mechanism \in Mechanisms :
        register_paths(State, path_list, package_name, mechanism)
            = register_paths(State, Deduplicated(path_list, {}), package_name, mechanism)

\* register_paths has registered, in a factory that held nothing, a list that
\* names a directory with plugins twice
C10_Witness ==
    /\ ret.op = "register_paths"
    /\ ret.value > 0
    /\ \E path_list \in PathListArgs, mechanism \in Mechanisms :
           /\ Deduplicated(path_list, {}) # path_list
           /\ \E i, j \in 1..Len(path_list) : i # j /\ path_list[i] = path_list[j] /\ isdir(path_list[i])
           /\ LET r == register_paths(Fresh, path_list, None, mechanism)
              IN /\ r.value = ret.value
                 /\ r.st = [plugins |-> _plugins, paths |-> _registered_paths, stamp |-> stamp]

\* the versions get_plugin_from_id is asked for: a stored spelling, a spelling
\* that LooseVersion parses to the components of "1.2", and a version no
\* plugin has
V_1_02 == <<"1", ".", "0", "2">>
V_3_0 == <<"3", ".", "0">>
VersionArgs == {V_1_2, V_1_02, V_3_0}

\* every package of the registry holds a list
ListsOnly(plugins) ==
    plugins.isdict /\ \A i \in 1..Len(plugins.d) : plugins.d[i][2].islist

\* C11: with versioning, get_plugin_from_id(id, package, version=v) returns a
\* candidate whose version is v when the candidates have one, and otherwise
\* returns None; it does not raise, whatever the spelling of v.
C11_RequestedVersionReturned ==
    \A plugin_id \in IdArgs, package_name \in PackageArgs, plugin_version \in VersionArgs :
        ListsOnly(_plugins)
            => LET r == get_plugin_from_id(_plugins, plugin_id, package_name, plugin_version)
                   exact == {c \in StoredIn(_plugins, package_name) :
                                /\ _get_identifier(c) = plugin_id
                                /\ _get_version(c) = plugin_version}
               IN /\ r.raised = ""
                  /\ IF exact # {} THEN r.value \in exact ELSE r.value = "None"

\* the strict subclasses of the interface that the scan of a module reaches:
\* those among its attributes before the first one whose getattr raises
RECURSIVE Reached(_, _)
Reached(attrs, i) ==
    IF i > Len(attrs) \/ attrs[i] = "boom" THEN {}
    ELSE (IF isclass(attrs[i]) /\ issubclass(attrs[i]) /\ attrs[i] # Interface
          THEN {attrs[i]} ELSE {}) \cup Reached(attrs, i + 1)

\* the files of a walk that are broken for a mechanism: no load yields a module,
\* or the scan of the module raises
Broken(file_path, mechanism) ==
    \/ ~LoadModule(file_path, mechanism)
    \/ \E i \in 1..Len(ModuleAttrs(file_path)) : ModuleAttrs(file_path)[i] = "boom"

\* C12: register_path on a directory with broken files scans every file that
\* yields a module, also after a broken file: the classes the scan of the file
\* reaches are stamped with the file, and where identifiers(package) returned
\* before the call it returns their identifiers after it.
C12_BrokenFilesAreIsolated ==
    \A a \in RegisterPathArgs :
        a[1] \in DirArgs
            => LET r == register_path(State, a[1], a[2], a[3])
                   file_paths == ScanPlan[a[1]]
                   scanned == {i \in 1..Len(file_paths) : LoadModule(file_paths[i], a[3])}
               IN /\ \A i \in scanned : \A c \in Reached(ModuleAttrs(file_paths[i]), 1) :
                         /\ DHas(r.st.stamp, c)
                         /\ DGet(r.st.stamp, c) = [ROOT |-> a[1], PATH |-> file_paths[i]]
                  /\ identifiers(_plugins, a[2]).raised = ""
                         => /\ identifiers(r.st.plugins, a[2]).raised = ""
                            /\ \A i \in scanned :
                                   \A c \in Reached(ModuleAttrs(file_paths[i]), 1) :
                                       _get_identifier(c) \in identifiers(r.st.plugins, a[2]).value

\* register_path has scanned a directory where a file whose scan raises and a
\* file that yields no module come before a file with a plugin, and the
\* identifier of that plugin is returned by identifiers
C12_Witness ==
    /\ ret.op = "register_path"
    /\ \E a \in RegisterPathArgs :
           /\ a[1] \in DirArgs
           /\ DHas(_registered_paths, IF Falsy(a[2]) THEN tpDcc ELSE a[2])
           /\ LET file_paths == ScanPlan[a[1]]
              IN \E i, j \in 1..Len(file_paths) :
                     /\ i < j
                     /\ Broken(file_paths[i], a[3])
                     /\ LoadModule(file_paths[j], a[3])
                     /\ \E c \in Reached(ModuleAttrs(file_paths[j]), 1) :
                            /\ DHas(stamp, c)
                            /\ DGet(stamp, c) = [ROOT |-> a[1], PATH |-> file_paths[j]]
                            /\ identifiers(_plugins, a[2])
                                   = [raised |-> "", value |-> {_get_identifier(c)}]

\* plugins(package_name): the plugin returned for every identifier of
\* identifiers(package_name); the order of the returned list is that of a set
plugins(registry, package_name) ==
    LET ids == identifiers(registry, package_name)
        got == [identifier \in ids.value |->
                   get_plugin_from_id(registry, identifier, package_name, None)]
    IN IF ids.raised # "" THEN [raised |-> ids.raised, value |-> <<>>]
       ELSE IF \E identifier \in ids.value : got[identifier].raised # ""
       THEN [raised |-> (CHOOSE e \in {got[identifier].raised : identifier \in ids.value} :
                             e # ""),
             value |-> <<>>]
       ELSE [raised |-> "", value |-> [identifier \in ids.value |-> got[identifier].value]]

\* C13: plugins(package) returns one plugin for every identifier of
\* identifiers(package), each a member of the list of that package (of the
\* default package when the package is omitted) that has the identifier.
C13_PluginsFromOwnPackage ==
    \A package_name \in PackageArgs :
        ListsOnly(_plugins)
            => LET r == plugins(_plugins, package_name)
                   own == StoredIn(_plugins, IF Falsy(package_name) THEN tpDcc ELSE package_name)
               IN /\ r.raised = ""
                  /\ DOMAIN r.value = identifiers(_plugins, package_name).value
                  /\ \A identifier \in DOMAIN r.value :
                         /\ r.value[identifier] \in own
                         /\ _get_identifier(r.value[identifier]) = identifier

\* the elements of a sequence
Range(seq) == {seq[i] : i \in 1..Len(seq)}

\* C14: after register_path(p) without a package on an existing directory,
\* paths() contains p, versions(id) lists the versions of the plugins found
\* under p, and unregister_path(p) removes p from the registered paths.
C14_OmittedPackageIsDefault ==
    \A path \in DirArgs, mechanism \in Mechanisms :
        ListsOnly(_plugins)
            => LET r == register_path(State, path, None, mechanism)
                   found == {r.st.stamp[i][1] : i \in 1..Len(r.st.stamp)}
                   u == unregister_path(r.st, path, None)
               IN /\ path \in Range(paths(r.st.paths, None))
                  /\ \A c \in found :
                         /\ versions(r.st.plugins, _get_identifier(c), None).raised = ""
                         /\ _get_version(c)
                                \in Range(versions(r.st.plugins, _get_identifier(c), None).value)
                  /\ path \notin Range(paths(u.paths, None))
                  /\ path \notin Range(paths(u.paths, tpDcc))

\* the entries of all packages, package after package in the order of the
\* registry, each package in the order its plugins were appended
RECURSIVE Discovered(_, _)
Discovered(d, i) ==
    IF i > Len(d) THEN <<>> ELSE d[i][2].items \o Discovered(d, i + 1)

\* the first plugin of a sequence that has the identifier, "None" without one
FirstWith(items, identifier) ==
    LET at == {i \in 1..Len(items) : _get_identifier(items[i]) = identifier}
    IN IF at = {} THEN "None" ELSE items[CHOOSE i \in at : \A j \in at : i <= j]

\* C15: without a version identifier, in a state where every package holds a
\* list, get_plugin_from_id(id, package, version) returns the first plugin in
\* discovery order that has the identifier (None without one), whatever the
\* version argument.
C15_UnversionedFirstDiscovered ==
    \A plugin_id \in IdArgs, package_name \in PackageArgs,
       plugin_version \in VersionArgs \cup {None} :
        ListsOnly(_plugins)
            => get_plugin_from_id(_plugins, plugin_id, package_name, plugin_version)
                   = [raised |-> "",
                      value |-> FirstWith(IF Falsy(package_name) THEN Discovered(_plugins.d, 1)
                                          ELSE DGetDefault(_plugins.d, package_name,
                                                           PyList(<<>>)).items,
                                          plugin_id)]

\* a factory without a version identifier holds, in one package, two different
\* classes of one identifier that have different versions
C15_Witness ==
    /\ Falsy(_version_identifier)
    /\ ListsOnly(_plugins)
    /\ \E i \in 1..Len(_plugins.d) :
           LET items == _plugins.d[i][2].items
           IN /\ Len(items) = 2
              /\ items[1] # items[2]
              /\ _get_identifier(items[1]) = _get_identifier(items[2])
              /\ ClassVERSION(items[1]).val # ClassVERSION(items[2]).val

\* C16: the scan of a loaded module whose attribute enumeration raises leaves
\* the plugin registry as it was before the scan of that module.
C16_RaisingModuleAddsNothing ==
    \A file_path \in Files, package_name \in {tpDcc, PKG} :
        (/\ ListsOnly(_plugins)
         /\ Loadable(file_path)
         /\ \E i \in 1..Len(ModuleAttrs(file_path)) : ModuleAttrs(file_path)[i] = "boom")
            => ScanModule(State, ModuleAttrs(file_path), 1, <<file_path[1]>>, file_path,
                          package_name).plugins = _plugins

\* the (package, path, mechanism) triples of a path registry
Triples(registered_paths) ==
    UNION {{<<registered_paths[i][1], registered_paths[i][2][j][1], registered_paths[i][2][j][2]>> :
                j \in 1..Len(registered_paths[i][2])} : i \in 1..Len(registered_paths)}

\* the triples unregister_path(path, package_name) is to remove
Unregistered(registered_paths, path, package_name) ==
    {t \in Triples(registered_paths) :
        t[1] = package_name /\ clean_path(t[2]) = clean_path(path)}

\* C17: after unregister_path(path, package) the path registry holds the prior
\* triples without those of the package whose canonical path is that of path;
\* the paths and mechanisms of every other package are as before.
C17_UnregisterRemovesOnlyTarget ==
    \A a \in UnregisterPathArgs :
        LET after == unregister_path(State, a[1], a[2]).paths
        IN /\ Triples(after)
                  = Triples(_registered_paths) \ Unregistered(_registered_paths, a[1], a[2])
           /\ \A i \in 1..Len(_registered_paths) :
                  _registered_paths[i][1] # a[2]
                      => /\ DHas(after, _registered_paths[i][1])
                         /\ DGet(after, _registered_paths[i][1]) = _registered_paths[i][2]

\* an unregister_path has left one path registered, and the registry holds a
\* path that unregister_path called with another spelling of it removes
C17_Witness ==
    /\ ret.op = "unregister_path"
    /\ TotalPaths(_registered_paths) = 1
    /\ \E a \in UnregisterPathArgs :
           /\ Unregistered(_registered_paths, a[1], a[2]) # {}
           /\ \A t \in Unregistered(_registered_paths, a[1], a[2]) : t[2] # a[1]
           /\ unregister_path(State, a[1], a[2]).paths = <<>>

\* the entries that one scan of a path with a mechanism appends, in order
ScanItems(path, mechanism) ==
    DGetDefault(register_path(Fresh, path, tpDcc, mechanism).st.plugins.d, tpDcc,
                PyList(<<>>)).items

\* the entries that one scan of every path of a package, in the order of the
\* registry and with the stored mechanisms, appends
RECURSIVE ScanAll(_, _)
ScanAll(registered_paths_dict, j) ==
    IF j > Len(registered_paths_dict) THEN <<>>
    ELSE ScanItems(registered_paths_dict[j][1], registered_paths_dict[j][2])
             \o ScanAll(registered_paths_dict, j + 1)

\* C18: after reload() the path registry is as before the reload, also for
\* paths without plugins, and (the registry of plugins being a dict) every
\* package holds what one scan of each of its paths with the stored mechanism
\* appends.
C18_ReloadKeepsRegistry ==
    LET after == reload(State)
    IN /\ after.paths = _registered_paths
       /\ _plugins.isdict
              => \A i \in 1..Len(_registered_paths) :
                     DGetDefault(after.plugins.d, _registered_paths[i][1], PyList(<<>>))
                         = PyList(ScanAll(_registered_paths[i][2], 1))

\* a reload has rescanned two registered paths, one with a plugin and one
\* under which the stored mechanism finds none
C18_Witness ==
    /\ ret.op = "reload"
    /\ _plugins.isdict
    /\ TotalPaths(_registered_paths) = 2
    /\ TotalEntries(_plugins) = 1
    /\ \E t \in Triples(_registered_paths) : ScanItems(t[2], t[3]) = <<>>
    /\ reload(State).paths = _registered_paths
    /\ reload(State).plugins = _plugins

\* C19: for every eligible file of a registered directory, GUESS attempts the
\* import first and the load from source only if the import yielded no module,
\* IMPORTABLE never attempts the load from source, LOAD_SOURCE never attempts
\* the import, and a file for which no attempt yields a module leaves the
\* factory as it was.
C19_LoadingFollowsMechanism ==
    \A path \in DirArgs, mechanism \in Mechanisms :
        \A i \in 1..Len(ScanPlan[path]) :
            LET file_path == ScanPlan[path][i]
                attempts == LoadAttempts(file_path, mechanism)
            IN /\ mechanism = GUESS
                      => attempts = IF _mechanism_import(file_path) THEN <<"import">>
                                    ELSE <<"import", "load">>
               /\ mechanism = IMPORTABLE => attempts = <<"import">>
               /\ mechanism = LOAD_SOURCE => attempts = <<"load">>
               /\ (\A k \in 1..Len(attempts) : ~Yields(attempts[k], file_path))
                      => \A package_name \in {tpDcc, PKG} :
                             ScanFiles(State, <<file_path>>, path, package_name, mechanism)
                                 = State

\* register_path has scanned, with GUESS, a directory with a file that no
\* attempt loads and a file that only the load from source yields, and has
\* stored the plugin of the latter alone
C19_Witness ==
    /\ ret.op = "register_path"
    /\ ret.value = 1
    /\ _registered_paths = <<<<tpDcc, <<<<<<P2>>, GUESS>>>>>>>>
    /\ LoadAttempts(<<P2, K_PY>>, GUESS) = <<"import", "load">>
    /\ ~LoadModule(<<P2, K_PY>>, GUESS)
    /\ LoadAttempts(<<P2, B_PY>>, GUESS) = <<"import", "load">>
    /\ stamp = <<<<"A2", [ROOT |-> <<P2>>, PATH |-> <<P2, B_PY>>]>>>>
    /\ _plugins = [isdict |-> TRUE, d |-> <<<<tpDcc, PyList(<<"A2">>)>>>>]

\* C20: the path registry holds at most one entry for a package and a
\* canonical path.
C20_OneEntryPerCanonicalPath ==
    \A t, u \in Triples(_registered_paths) :
        (t[1] = u[1] /\ clean_path(t[2]) = clean_path(u[2])) => t = u

====
